---- MODULE Spec2Model ----
(***************************************************************************)
(* Model of deepLearningModelTraining/trainBallFieldSideModel.py: a        *)
(* straight-line script that generates random positional samples, labels   *)
(* them by the sign of the ball's x position, splits samples and labels    *)
(* into a training, a validation and a test slice, and trains, evaluates   *)
(* and saves a two-layer dense network.                                    *)
(*                                                                         *)
(* Floats are modelled on a binary grid: the integer k stands for the      *)
(* float k * 2^-F64GridBits.  np.random.uniform(-1.0, 1.0) returns         *)
(* -1 + 2*u with u a multiple of 2^-53 in [0,1), i.e. a multiple of 2^-52  *)
(* in [-1,1); float32 keeps 24 significant bits.  The model keeps the two  *)
(* formats but with fewer bits (F64GridBits for 52, F32MantBits for 24).   *)
(*                                                                         *)
(* An array of n rows is the record [len |-> n, base |-> rows]: row i      *)
(* (0-based) is base[(i % Len(base)) + 1].  For n <= MaxSamples the base   *)
(* holds the n rows themselves; a longer array (the script's 102400 rows)  *)
(* is drawn among the arrays that repeat with period LargePeriod.          *)
(***************************************************************************)
EXTENDS Integers, Sequences, FiniteSets, TLC

VARIABLES
    cfg,                 \* the CONFIGURATION block's sample counts (lines 27-31)
    pc,                  \* the statement the script is at
    err,                 \* the uncaught exception that ended the run, or "none"
    bound,               \* the module-level names bound so far
    data,                \* line 41-42
    targets,             \* line 47
    training_data, training_targets,        \* lines 50-51
    validation_data, validation_targets,    \* lines 53-54
    test_data, test_targets,                \* lines 56-57
    model,               \* lines 60-67, updated in place by fit
    fit,                 \* the state of the running model.fit call (line 70)
    history,             \* line 70: what fit recorded, one entry per epoch
    results,             \* line 73
    stdout,              \* the lines printed so far
    disk,                \* the files written so far
    steps                \* the stages completed so far, in order

vars == <<cfg, pc, err, bound, data, targets, training_data, training_targets,
          validation_data, validation_targets, test_data, test_targets,
          model, fit, history, results, stdout, disk, steps>>

arrays == <<data, targets, training_data, training_targets,
            validation_data, validation_targets, test_data, test_targets>>

-----------------------------------------------------------------------------
(* Bounds of the model *)

MaxSamples == 3

LargePeriod == 1

F64GridBits == 6

F32MantBits == 3

-----------------------------------------------------------------------------
(* CONFIGURATION (lines 27-37) *)

numSamples == 1024 * 100

numTrainingSamples == 1024 * 80

numValidationSamples == 1024 * 10

numTestSamples == 1024 * 10

numEpochs == 20

batchSize == 512

savePath == "../src/main/resources/models/ballFieldSideModel.h5"

Dim == (1 + 11 + 11) * 3

\* The script's own configuration.
ScriptConfig ==
    [numSamples |-> numSamples,
     numTrainingSamples |-> numTrainingSamples,
     numValidationSamples |-> numValidationSamples,
     numTestSamples |-> numTestSamples]

\* The assert removed.
SizesNotChecked(c) == TRUE

\* The assert with <= for ==.
SizesAtMost(c) ==
    c.numTrainingSamples + c.numValidationSamples + c.numTestSamples <= c.numSamples

\* line 32: the condition of the assert
SizesAddUp(c) ==
    c.numTrainingSamples + c.numValidationSamples + c.numTestSamples = c.numSamples

-----------------------------------------------------------------------------
(* Floats *)

Min(a, b) == IF a <= b THEN a ELSE b

Max(a, b) == IF a >= b THEN a ELSE b

RECURSIVE Pow2(_)
Pow2(n) == IF n <= 0 THEN 1 ELSE 2 * Pow2(n - 1)

\* 1.0 on the grid
One == Pow2(F64GridBits)

RECURSIVE BitLen(_)
BitLen(m) == IF m <= 0 THEN 0 ELSE 1 + BitLen(m \div 2)

\* astype('float32') of a non-negative value: round to nearest, ties to even,
\* on F32MantBits significant bits
F32Abs(m) ==
    LET ulp == Pow2(BitLen(m) - F32MantBits)
        q == m \div ulp
        r == m % ulp
    IN  IF 2 * r > ulp \/ (2 * r = ulp /\ q % 2 = 1)
        THEN (q + 1) * ulp
        ELSE q * ulp

\* astype('float32') of every value of the grid from -1.0 to 1.0
F32Table == [k \in (-One) .. One |-> IF k < 0 THEN -F32Abs(-k) ELSE F32Abs(k)]

\* A conversion that flushes the values nearest to zero to zero.
F32FlushToZero(k) == IF -2 < k /\ k < 2 THEN 0 ELSE F32Table[k]

\* astype('float32') of one value
F32(k) == F32Table[k]

F32Row(row) == [i \in DOMAIN row |-> F32(row[i])]

-----------------------------------------------------------------------------
(* Arrays and Python slicing *)

Empty == [len |-> 0, base |-> <<>>]

Length(a) == a.len

\* a[i], 0 <= i < len(a)
At(a, i) == a.base[(i % Len(a.base)) + 1]

Indices(a) == 0 .. (a.len - 1)

\* slice.indices(): a slice bound clamped to the sequence, negative bounds
\* counted from the end
PyBound(i, n) == IF i < 0 THEN Max(i + n, 0) ELSE Min(i, n)

\* a[start:stop]
Slice(a, start, stop) ==
    LET lo == PyBound(start, a.len)
        hi == PyBound(stop, a.len)
        n == IF hi > lo THEN hi - lo ELSE 0
    IN  [len |-> n,
         base |-> [j \in 1 .. Min(n, Len(a.base)) |-> At(a, lo + j - 1)]]

\* a[:stop]
SliceTo(a, stop) == Slice(a, 0, stop)

\* a[start:]
SliceFrom(a, start) == Slice(a, start, a.len)

\* np.asarray(a).astype('float32') of an array of rows
AsFloat32Rows(a) == [a EXCEPT !.base = [j \in DOMAIN a.base |-> F32Row(a.base[j])]]

\* np.asarray(a).astype('float32') of a list of floats
AsFloat32(a) == [a EXCEPT !.base = [j \in DOMAIN a.base |-> F32(a.base[j])]]

-----------------------------------------------------------------------------
(* GENERATE RANDOM DATA (lines 39-42) *)

\* Grid values the generator is enumerated over: -1.0 (the lowest value
\* uniform returns), the negative value nearest to zero, zero, a value float32
\* cannot hold (a rounding tie), and the highest value uniform returns.
Lowest == -One

TinyNeg == -1

Tie == Pow2(F32MantBits) + 1

Highest == One - 1

\* A row whose coordinate 0 is a and whose other coordinates are b.
RowOf(a, b) == [i \in 0 .. (Dim - 1) |-> IF i = 0 THEN a ELSE b]

\* line 41: the rows np.random.uniform(-1.0, 1.0, (numSamples, Dim)) is
\* enumerated over; every value lies in [-1.0, 1.0)
RawRows ==
    {RowOf(TinyNeg, Highest), RowOf(0, Tie), RowOf(0, -Tie), RowOf(Highest, Lowest)}

\* The number of rows stored for an array of n rows.
Period(n) == IF n <= MaxSamples THEN n ELSE LargePeriod

\* line 41: the outcomes of np.random.uniform(-1.0, 1.0, (n, Dim))
Uniform(n) == {[len |-> n, base |-> b] : b \in [1 .. Period(n) -> RawRows]}

\* data[:, ::3], the x columns.
XColumns == {i \in 0 .. (Dim - 1) : i % 3 = 0}

\* line 42: the columns data[:, 2::3] selects
ZColumns == {i \in 0 .. (Dim - 1) : i >= 2 /\ (i - 2) % 3 = 0}

\* line 42: data[:, 2::3] = 0.0, on one row
ZeroZRow(row) == [i \in DOMAIN row |-> IF i \in ZColumns THEN 0 ELSE row[i]]

\* line 42: data[:, 2::3] = 0.0
ZeroZ(a) == [a EXCEPT !.base = [j \in DOMAIN a.base |-> ZeroZRow(a.base[j])]]

-----------------------------------------------------------------------------
(* GENERATE THE TARGETS (lines 44-47) *)

\* 1.0 if d[0] > 0 else 0.0
TargetStrict(d) == IF d[0] > 0 THEN One ELSE 0

\* line 47: 1.0 if d[0] >= 0 else 0.0
Target(d) == IF d[0] >= 0 THEN One ELSE 0

\* line 47: [... for d in data]
TargetsOf(a) == [a EXCEPT !.base = [j \in DOMAIN a.base |-> Target(a.base[j])]]

-----------------------------------------------------------------------------
(* SPLIT (lines 49-57) *)

\* [:numTrainingSamples - 1]
TrainingSliceShort(a, c) == SliceTo(a, c.numTrainingSamples - 1)

\* lines 50-51: [:numTrainingSamples]
TrainingSlice(a, c) == SliceTo(a, c.numTrainingSamples)

\* [numValidationSamples:numTrainingSamples + numValidationSamples]
ValidationSliceFromCount(a, c) ==
    Slice(a, c.numValidationSamples, c.numTrainingSamples + c.numValidationSamples)

\* lines 53-54: [numTrainingSamples:numTrainingSamples + numValidationSamples]
ValidationSlice(a, c) ==
    Slice(a, c.numTrainingSamples, c.numTrainingSamples + c.numValidationSamples)

\* lines 56-57: [numTrainingSamples + numValidationSamples:]
TestSlice(a, c) == SliceFrom(a, c.numTrainingSamples + c.numValidationSamples)

-----------------------------------------------------------------------------
(* The model and the framework calls (lines 59-78) *)

NoModel == [layers |-> <<>>, compile |-> <<>>, updates |-> 0]

\* lines 60-62
Layers ==
    <<[units |-> 64, activation |-> "relu", inputs |-> Dim],
      [units |-> 1, activation |-> "sigmoid", inputs |-> 64]>>

\* line 67
CompileArgs == <<"rmsprop", "binary_crossentropy", "accuracy">>

\* line 70: the arguments of model.fit
FitArgs ==
    [x |-> "training_data", y |-> "training_targets",
     val_x |-> "validation_data", val_y |-> "validation_targets",
     epochs |-> numEpochs, batch_size |-> batchSize]

\* line 73: the arguments of model.evaluate
EvaluateArgs == [x |-> "test_data", y |-> "test_targets"]

\* The array a module-level name is bound to.
Value(name) ==
    CASE name = "data" -> data
      [] name = "targets" -> targets
      [] name = "training_data" -> training_data
      [] name = "training_targets" -> training_targets
      [] name = "validation_data" -> validation_data
      [] name = "validation_targets" -> validation_targets
      [] name = "test_data" -> test_data
      [] name = "test_targets" -> test_targets

NoFit ==
    [x |-> "", y |-> "", val_x |-> "", val_y |-> "", epochs |-> 0, batch_size |-> 0,
     epoch |-> 0, seen |-> 0, batches |-> 0, largest |-> 0]

\* The whole rest of the epoch as one batch.
BatchLenUnbounded(n, seen, batch_size) == n - seen

\* line 70: the size of the next mini-batch of an epoch that has drawn `seen`
\* of the n training samples
BatchLen(n, seen, batch_size) == Min(batch_size, n - seen)

\* line 70: the model after one gradient update
TrainStep(m) == [m EXCEPT !.updates = @ + 1]

\* line 70: the model after a validation pass
ValidationStep(m) == m

\* An evaluation that updates the parameters.
EvaluateStepUpdating(m) == [m EXCEPT !.updates = @ + 1]

\* line 73: the model after model.evaluate
EvaluateStep(m) == m

\* line 77: what model.save writes
SavedModel(m) == m

NoResults == [x |-> "", y |-> "", samples |-> 0, updates |-> 0]

Line(text, n, s) == [line |-> text, n |-> n, s |-> s]

\* line 74
AccuracyLine(c) == Line("Test accuracy on {} new samples: {}", c.numTestSamples, "")

\* line 78
SavedLine == Line("Saved model to {}", 0, savePath)

\* The stages of the script, in the order of the file.
Stages ==
    <<"generate", "targets", "split", "build", "compile", "fit", "evaluate",
      "print accuracy", "save", "print saved">>

-----------------------------------------------------------------------------
(* The run *)

\* The sample counts a small configuration is drawn from.
Counts == 0 .. MaxSamples

\* Configurations with natural sample counts, whether or not they add up.
Configs ==
    [numSamples : Counts, numTrainingSamples : Counts,
     numValidationSamples : Counts, numTestSamples : Counts]

Start(c) ==
    /\ cfg = c
    /\ pc = "assert"
    /\ err = "none"
    /\ bound = {}
    /\ data = Empty
    /\ targets = Empty
    /\ training_data = Empty
    /\ training_targets = Empty
    /\ validation_data = Empty
    /\ validation_targets = Empty
    /\ test_data = Empty
    /\ test_targets = Empty
    /\ model = NoModel
    /\ fit = NoFit
    /\ history = <<>>
    /\ results = NoResults
    /\ stdout = <<>>
    /\ disk = <<>>
    /\ steps = <<>>

Init == \E c \in Configs : Start(c)

\* An exception that is caught and logged, the script going on.
RaiseCaught(e) ==
    /\ pc' = "print saved"
    /\ err' = e

\* An uncaught exception: the interpreter prints the traceback on stderr and
\* exits; nothing else changes.
Raise(e) ==
    /\ pc' = "aborted"
    /\ err' = e

\* line 32, the condition holds
AssertPass ==
    /\ pc = "assert"
    /\ SizesAddUp(cfg)
    /\ pc' = "uniform"
    /\ UNCHANGED <<cfg, err, bound, arrays, model, fit, history, results, stdout,
                   disk, steps>>

\* line 32, the condition fails
AssertFail ==
    /\ pc = "assert"
    /\ ~SizesAddUp(cfg)
    /\ Raise("AssertionError")
    /\ UNCHANGED <<cfg, bound, arrays, model, fit, history, results, stdout, disk,
                   steps>>

\* line 41
GenerateUniform ==
    /\ pc = "uniform"
    /\ \E a \in Uniform(cfg.numSamples) : data' = a
    /\ bound' = bound \cup {"data"}
    /\ pc' = "zero"
    /\ UNCHANGED <<cfg, err, targets, training_data, training_targets,
                   validation_data, validation_targets, test_data, test_targets,
                   model, fit, history, results, stdout, disk, steps>>

\* line 42
GenerateZeroZ ==
    /\ pc = "zero"
    /\ data' = ZeroZ(data)
    /\ steps' = Append(steps, "generate")
    /\ pc' = "targets"
    /\ UNCHANGED <<cfg, err, bound, targets, training_data, training_targets,
                   validation_data, validation_targets, test_data, test_targets,
                   model, fit, history, results, stdout, disk>>

\* line 47
GenerateTargets ==
    /\ pc = "targets"
    /\ targets' = TargetsOf(data)
    /\ bound' = bound \cup {"targets"}
    /\ steps' = Append(steps, "targets")
    /\ pc' = "split"
    /\ UNCHANGED <<cfg, err, data, training_data, training_targets,
                   validation_data, validation_targets, test_data, test_targets,
                   model, fit, history, results, stdout, disk>>

\* lines 50-57
Split ==
    /\ pc = "split"
    /\ training_data' = AsFloat32Rows(TrainingSlice(data, cfg))
    /\ training_targets' = AsFloat32(TrainingSlice(targets, cfg))
    /\ validation_data' = AsFloat32Rows(ValidationSlice(data, cfg))
    /\ validation_targets' = AsFloat32(ValidationSlice(targets, cfg))
    /\ test_data' = AsFloat32Rows(TestSlice(data, cfg))
    /\ test_targets' = AsFloat32(TestSlice(targets, cfg))
    /\ bound' = bound \cup {"training_data", "training_targets", "validation_data",
                            "validation_targets", "test_data", "test_targets"}
    /\ steps' = Append(steps, "split")
    /\ pc' = "build"
    /\ UNCHANGED <<cfg, err, data, targets, model, fit, history, results, stdout,
                   disk>>

\* lines 60-64
Build ==
    /\ pc = "build"
    /\ model' = [NoModel EXCEPT !.layers = Layers]
    /\ bound' = bound \cup {"model"}
    /\ stdout' = Append(stdout, Line("summary", Len(Layers), ""))
    /\ steps' = Append(steps, "build")
    /\ pc' = "compile"
    /\ UNCHANGED <<cfg, err, arrays, fit, history, results, disk>>

\* line 67
Compile ==
    /\ pc = "compile"
    /\ model' = [model EXCEPT !.compile = CompileArgs]
    /\ steps' = Append(steps, "compile")
    /\ pc' = "fit"
    /\ UNCHANGED <<cfg, err, bound, arrays, fit, history, results, stdout, disk>>

\* line 70: model.fit is entered.  Given an empty training or validation
\* array the framework raises or goes on, depending on its version.
FitBegin ==
    /\ pc = "fit"
    /\ \E raises \in BOOLEAN :
         /\ raises => (Length(Value(FitArgs.x)) = 0 \/ Length(Value(FitArgs.val_x)) = 0)
         /\ IF raises
            THEN /\ Raise("ValueError")
                 /\ fit' = fit
            ELSE /\ pc' = "epoch"
                 /\ err' = err
                 /\ fit' = [x |-> FitArgs.x, y |-> FitArgs.y,
                            val_x |-> FitArgs.val_x, val_y |-> FitArgs.val_y,
                            epochs |-> FitArgs.epochs,
                            batch_size |-> FitArgs.batch_size,
                            epoch |-> 0, seen |-> 0, batches |-> 0, largest |-> 0]
    /\ UNCHANGED <<cfg, bound, arrays, model, history, results, stdout, disk, steps>>

\* line 70: one mini-batch of the running epoch is drawn from fit's x and y
\* and the parameters are updated.
TrainBatch ==
    /\ pc = "epoch"
    /\ fit.seen < Length(Value(fit.x))
    /\ LET k == BatchLen(Length(Value(fit.x)), fit.seen, fit.batch_size)
       IN  fit' = [fit EXCEPT !.seen = @ + k, !.batches = @ + 1,
                              !.largest = Max(@, k)]
    /\ model' = TrainStep(model)
    /\ UNCHANGED <<cfg, pc, err, bound, arrays, history, results, stdout, disk, steps>>

\* line 70: the epoch's pass is over; one validation pass over fit's
\* validation arrays ends the epoch, and the last epoch ends the call.
EndEpoch ==
    /\ pc = "epoch"
    /\ fit.seen = Length(Value(fit.x))
    /\ model' = ValidationStep(model)
    /\ history' = Append(history,
                         [epoch |-> fit.epoch + 1, samples |-> fit.seen,
                          batches |-> fit.batches, largest |-> fit.largest,
                          val_x |-> fit.val_x,
                          val_samples |-> Length(Value(fit.val_x)),
                          updates |-> model.updates])
    /\ stdout' = Append(stdout, Line("Epoch", fit.epoch + 1, ""))
    /\ fit' = [fit EXCEPT !.epoch = @ + 1, !.seen = 0, !.batches = 0, !.largest = 0]
    /\ IF fit.epoch + 1 >= fit.epochs
       THEN /\ pc' = "evaluate"
            /\ bound' = bound \cup {"history"}
            /\ steps' = Append(steps, "fit")
       ELSE /\ pc' = pc
            /\ bound' = bound
            /\ steps' = steps
    /\ UNCHANGED <<cfg, err, arrays, results, disk>>

\* line 73.  Given an empty test array the framework raises or goes on,
\* depending on its version.
Evaluate ==
    /\ pc = "evaluate"
    /\ \E raises \in BOOLEAN :
         /\ raises => Length(Value(EvaluateArgs.x)) = 0
         /\ IF raises
            THEN /\ Raise("ValueError")
                 /\ UNCHANGED <<model, results, bound, steps>>
            ELSE /\ pc' = "print accuracy"
                 /\ err' = err
                 /\ model' = EvaluateStep(model)
                 /\ results' = [x |-> EvaluateArgs.x, y |-> EvaluateArgs.y,
                                samples |-> Length(Value(EvaluateArgs.x)),
                                updates |-> model.updates]
                 /\ bound' = bound \cup {"results"}
                 /\ steps' = Append(steps, "evaluate")
    /\ UNCHANGED <<cfg, arrays, fit, history, stdout, disk>>

\* line 74
PrintAccuracy ==
    /\ pc = "print accuracy"
    /\ stdout' = Append(stdout, AccuracyLine(cfg))
    /\ steps' = Append(steps, "print accuracy")
    /\ pc' = "save"
    /\ UNCHANGED <<cfg, err, bound, arrays, model, fit, history, results, disk>>

\* line 77, the file is written
SaveOk ==
    /\ pc = "save"
    /\ disk' = Append(disk, [path |-> savePath, model |-> SavedModel(model)])
    /\ steps' = Append(steps, "save")
    /\ pc' = "print saved"
    /\ UNCHANGED <<cfg, err, bound, arrays, model, fit, history, results, stdout>>

\* line 77, the file cannot be written (the directory of savePath is missing)
SaveFail ==
    /\ pc = "save"
    /\ Raise("OSError")
    /\ UNCHANGED <<cfg, bound, arrays, model, fit, history, results, stdout, disk,
                   steps>>

\* line 78
PrintSaved ==
    /\ pc = "print saved"
    /\ stdout' = Append(stdout, SavedLine)
    /\ steps' = Append(steps, "print saved")
    /\ pc' = "done"
    /\ UNCHANGED <<cfg, err, bound, arrays, model, fit, history, results, disk>>

Next ==
    \/ AssertPass
    \/ AssertFail
    \/ GenerateUniform
    \/ GenerateZeroZ
    \/ GenerateTargets
    \/ Split
    \/ Build
    \/ Compile
    \/ FitBegin
    \/ TrainBatch
    \/ EndEpoch
    \/ Evaluate
    \/ PrintAccuracy
    \/ SaveOk
    \/ SaveFail
    \/ PrintSaved

Spec == Init /\ [][Next]_vars

-----------------------------------------------------------------------------
(* The script with its own sample counts *)

\* The slice sizes the specification's overview gives (training, validation,
\* test).
OverviewSizes == <<80980, 10240, 10240>>

OverviewTraining == OverviewSizes[1]

\* The script's configuration, the same with the overview's training count,
\* and the latter with validation enlarged so that the counts add up again
\* (a training slice that is no multiple of batchSize).
ScriptConfigs ==
    {ScriptConfig,
     [ScriptConfig EXCEPT !.numTrainingSamples = OverviewTraining],
     [ScriptConfig EXCEPT !.numTrainingSamples = OverviewTraining,
                          !.numValidationSamples =
                              numSamples - OverviewTraining - numTestSamples]}

InitScript == \E c \in ScriptConfigs : Start(c)

SpecScript == InitScript /\ [][Next]_vars

-----------------------------------------------------------------------------
(* The script with the constants changed to arbitrary integers *)

IntCounts == (1 - MaxSamples) .. (MaxSamples + 1)

\* Test counts below, inside, at the end of and beyond 0 .. numSamples.
TestCounts == {-1, 1, MaxSamples, MaxSamples + 1}

IntConfigs ==
    [numSamples : {MaxSamples}, numTrainingSamples : IntCounts,
     numValidationSamples : IntCounts, numTestSamples : TestCounts]

InitInt == \E c \in IntConfigs : Start(c)

SpecInt == InitInt /\ [][Next]_vars

-----------------------------------------------------------------------------
(* Properties *)

Completed(stage) == \E i \in DOMAIN steps : steps[i] = stage

IsPrefix(p, q) == Len(p) <= Len(q) /\ \A i \in 1 .. Len(p) : p[i] = q[i]

Printed(line) == \E i \in DOMAIN stdout : stdout[i] = line

Slices == <<training_data, validation_data, test_data>>

TargetSlices == <<training_targets, validation_targets, test_targets>>

\* C1: once the targets are derived, every sample's target is 1.0 exactly when
\* its coordinate 0 is >= 0 and 0.0 otherwise, there are as many targets as
\* samples, and two samples that agree on coordinate 0 have the same target.
C1_TargetIsSignOfFirstCoordinate ==
    ("targets" \in bound) =>
        /\ Length(targets) = Length(data)
        /\ \A i \in Indices(data) :
             /\ At(targets, i) \in {0, One}
             /\ (At(targets, i) = One) <=> (At(data, i)[0] >= 0)
             /\ (At(targets, i) = 0) <=> (At(data, i)[0] < 0)
        /\ \A i, j \in Indices(data) :
             (At(data, i)[0] = At(data, j)[0]) => (At(targets, i) = At(targets, j))

\* C1 witness: targets derived for a sample with coordinate 0 equal to 0.0
\* (target 1.0), another with the same coordinate 0 and different other
\* coordinates (same target), and one with negative coordinate 0 (target 0.0).
C1_Witness ==
    /\ "targets" \in bound
    /\ \E i, j, k \in Indices(data) :
         /\ At(data, i)[0] = 0 /\ At(targets, i) = One
         /\ At(data, j)[0] = 0 /\ At(data, j) # At(data, i) /\ At(targets, j) = One
         /\ At(data, k)[0] < 0 /\ At(targets, k) = 0

\* The z coordinates of a row are 0.0 and the row has Dim coordinates.
ZIsZero(row) ==
    /\ DOMAIN row = 0 .. 68
    /\ \A c \in DOMAIN row : (c % 3 = 2) => (row[c] = 0)

AllZIsZero(a) == \A i \in Indices(a) : ZIsZero(At(a, i))

\* C2, the states: from the end of data generation on, every row of data and
\* of the three slices has 69 coordinates, those at indices 2, 5, ..., 68 being 0.0.
C2_ZState ==
    /\ (pc # "zero" /\ "data" \in bound) => AllZIsZero(data)
    /\ \A s \in 1 .. 3 : AllZIsZero(Slices[s])

\* C2, the zeroing step: it leaves every coordinate at another index as it was.
C2_ZStep ==
    (pc = "zero") =>
        /\ Length(data') = Length(data)
        /\ \A i \in Indices(data) : \A c \in 0 .. 68 :
             (c % 3 # 2) => (At(data', i)[c] = At(data, i)[c])

\* C2: every sample has (1+11+11)*3 = 69 coordinates; after generation every
\* coordinate with index = 2 mod 3 is 0.0 in data and in the training,
\* validation and test slices; zeroing overwrites no other coordinate.
C2_ZCoordinatesAreZero == [][C2_ZState' /\ C2_ZStep]_vars

\* C2 witness: the split is done, the three slices are non-empty, and a sample
\* holds non-zero values at other indices.
C2_Witness ==
    /\ Completed("split")
    /\ \A s \in 1 .. 3 : Length(Slices[s]) > 0
    /\ \E i \in Indices(data) : At(data, i)[1] # 0 /\ At(data, i)[2] = 0

SumOfSlices(c) == c.numTrainingSamples + c.numValidationSamples + c.numTestSamples

\* C3: when the three slice sizes do not add up to numSamples the run is at
\* the assert or has aborted there with an assertion failure, and nothing has
\* been generated, derived, built, trained, printed or written; when they add
\* up (as the script's own constants do) no assertion failure occurs.
C3_AssertFailsFast ==
    /\ 81920 + 10240 + 10240 = 1024 * 100
    /\ ScriptConfig = [numSamples |-> 102400, numTrainingSamples |-> 81920,
                       numValidationSamples |-> 10240, numTestSamples |-> 10240]
    /\ SumOfSlices(cfg) = cfg.numSamples => err # "AssertionError"
    /\ SumOfSlices(cfg) # cfg.numSamples =>
         /\ pc \in {"assert", "aborted"}
         /\ pc = "aborted" => err = "AssertionError"
         /\ bound = {}
         /\ \A i \in 1 .. 8 : arrays[i] = Empty
         /\ model = NoModel
         /\ fit = NoFit /\ history = <<>> /\ results = NoResults
         /\ stdout = <<>>
         /\ disk = <<>>
         /\ steps = <<>>

\* C3 witness: a run aborted by the assert.
C3_Witness ==
    pc = "aborted" /\ err = "AssertionError" /\ SumOfSlices(cfg) # cfg.numSamples

\* Slice number s (training, validation, test) of array `whole` as `part`:
\* the rows of `whole` from `from` on, `count` of them, in order, as float32.
IsRange(part, whole, from, count, IsRows) ==
    /\ Length(part) = count
    /\ \A i \in 0 .. (count - 1) :
         At(part, i) = IF IsRows THEN F32Row(At(whole, from + i))
                                 ELSE F32(At(whole, from + i))

\* C4: the training, validation and test slices are rows [0, tr), [tr, tr+va)
\* and [tr+va, numSamples) of the generated rows, in order: contiguous,
\* disjoint, covering every row once; the same for the targets.
C4_SlicesPartitionRows ==
    Completed("split") =>
        LET tr == cfg.numTrainingSamples
            va == cfg.numValidationSamples
        IN  /\ Length(data) = cfg.numSamples
            /\ Length(targets) = cfg.numSamples
            /\ IsRange(training_data, data, 0, tr, TRUE)
            /\ IsRange(validation_data, data, tr, va, TRUE)
            /\ IsRange(test_data, data, tr + va, cfg.numSamples - (tr + va), TRUE)
            /\ IsRange(training_targets, targets, 0, tr, FALSE)
            /\ IsRange(validation_targets, targets, tr, va, FALSE)
            /\ IsRange(test_targets, targets, tr + va, cfg.numSamples - (tr + va), FALSE)
            /\ Length(training_data) + Length(validation_data) + Length(test_data)
                 = Length(data)

\* C4 witness: a split into three non-empty slices of rows that differ.
C4_Witness ==
    /\ Completed("split")
    /\ \A s \in 1 .. 3 : Length(Slices[s]) > 0
    /\ At(data, 0) # At(data, 1)
    /\ At(data, 1) # At(data, 2)


SliceSizes == <<Length(training_data), Length(validation_data), Length(test_data)>>

TargetSliceSizes ==
    <<Length(training_targets), Length(validation_targets), Length(test_targets)>>

\* C5 as stated: the script's split yields 80 980 training, 10 240 validation
\* and 10 240 test samples, for the vectors and for the labels.
C5_AsStated ==
    (cfg = ScriptConfig /\ Completed("split")) =>
        /\ SliceSizes = <<80980, 10240, 10240>>
        /\ TargetSliceSizes = <<80980, 10240, 10240>>

\* C5, amended: the script's split yields 81 920 training, 10 240 validation
\* and 10 240 test samples, in that order, for the vectors and for the labels.
C5_SliceSizes ==
    (cfg = ScriptConfig /\ Completed("split")) =>
        /\ SliceSizes = <<81920, 10240, 10240>>
        /\ TargetSliceSizes = <<81920, 10240, 10240>>
        /\ Length(data) = 102400

\* C5 witness: the script's own configuration has been split.
C5_Witness == cfg = ScriptConfig /\ Completed("split") /\ Length(training_data) > 0

\* The number of epochs of the running or finished fit call.
EpochsDone == Len(history)

\* C6: the epoch counter never exceeds 20; every epoch draws batches of at
\* most 512 samples from the training slice, all of its samples once, and is
\* followed by exactly one validation pass over the validation slice; past
\* model.fit exactly 20 epochs have completed.
C6_TwentyEpochs ==
    /\ fit.epoch <= 20
    /\ EpochsDone = fit.epoch
    /\ fit.largest <= 512
    /\ (pc = "epoch") => (fit.x = "training_data" /\ fit.y = "training_targets")
    /\ \A e \in DOMAIN history :
         /\ history[e].epoch = e
         /\ history[e].largest <= 512
         /\ history[e].samples = Length(training_data)
         /\ history[e].batches * 512 >= Length(training_data)
         /\ (history[e].batches - 1) * 512 < Length(training_data)
         /\ history[e].val_x = "validation_data"
         /\ history[e].val_samples = Length(validation_data)
    /\ (pc = "epoch") => EpochsDone < 20
    /\ (pc \in {"evaluate", "print accuracy", "save", "print saved", "done"}
          \/ Completed("fit")) => EpochsDone = 20

\* C6 witness: training has finished after epochs of several batches, the
\* last batch of an epoch being a partial one.
C6_Witness ==
    /\ Completed("fit")
    /\ EpochsDone = 20
    /\ history[20].batches > 1
    /\ Length(training_data) % 512 # 0

\* The parameters at the end of training.
TrainedUpdates == history[Len(history)].updates

\* C7: the stages run in the order of the file; evaluation happens once,
\* after training, on the test slice; the model is saved after the accuracy
\* line is printed; the test slice is passed neither to training nor to
\* validation; evaluation and saving leave the parameters as training left
\* them, and those are the parameters saved.
C7_StageOrder ==
    /\ IsPrefix(steps, Stages)
    /\ fit.x \notin {"test_data", "test_targets"}
    /\ fit.val_x \notin {"test_data", "test_targets"}
    /\ \A e \in DOMAIN history : history[e].val_x # "test_data"
    /\ Completed("evaluate") =>
         /\ Completed("fit")
         /\ results.x = "test_data" /\ results.y = "test_targets"
         /\ results.samples = Length(test_data)
         /\ results.updates = TrainedUpdates
         /\ model.updates = TrainedUpdates
    /\ ~Completed("evaluate") => results = NoResults
    /\ (disk # <<>>) =>
         /\ Completed("evaluate")
         /\ Printed(AccuracyLine(cfg))
         /\ Len(disk) = 1
         /\ disk[1].path = savePath
         /\ disk[1].model = model
         /\ disk[1].model.updates = TrainedUpdates
         /\ disk[1].model.layers = Layers
    /\ (pc = "done") => steps = Stages

\* C7 witness: a finished run whose training updated the parameters.
C7_Witness == pc = "done" /\ model.updates > 0 /\ Length(test_data) > 0

\* C8, the states: a failed save leaves the run aborted with no file written
\* and no confirmation line; the confirmation line is printed only after a
\* successful save.
C8_SaveState ==
    /\ (err = "OSError") =>
         /\ pc = "aborted"
         /\ disk = <<>>
         /\ ~Printed(SavedLine)
         /\ ~Completed("save")
    /\ Printed(SavedLine) => (err = "none" /\ Len(disk) = 1 /\ Completed("save"))

\* C8: a failed save is fatal: the run aborts, nothing runs after the abort
\* (no retry, no fallback), no file is written and 'Saved model to <savePath>'
\* is not printed; the line is printed only in runs whose save succeeded.
C8_SaveFailureIsFatal == [][pc # "aborted" /\ C8_SaveState']_vars

\* C8 witness: a run aborted by the failed save.
C8_Witness == pc = "aborted" /\ err = "OSError" /\ Completed("print accuracy")

\* C9: the assert is the only guard: at the accuracy print the number printed
\* is the size of the evaluated test slice exactly when numTestSamples lies in
\* 0 .. numSamples; with numTestSamples > numSamples (and the other two counts
\* making up the difference) the run prints a number that is not the size of
\* the test slice.
C9_PrintedCountCanDiffer ==
    \A i \in DOMAIN stdout :
        (stdout[i].line = AccuracyLine(cfg).line) =>
            /\ results.samples = Length(test_data)
            /\ (stdout[i].n = results.samples)
                 <=> (0 <= cfg.numTestSamples /\ cfg.numTestSamples <= cfg.numSamples)

\* C9 witness: the accuracy line is printed with a count that is not the size
\* of the test slice, all three slices being non-empty.
C9_Witness ==
    /\ Printed(AccuracyLine(cfg))
    /\ cfg.numTestSamples # Length(test_data)
    /\ \A s \in 1 .. 3 : Length(Slices[s]) > 0

\* C10: in each slice there are as many targets as samples, and target i is
\* the label of sample i of the same slice: 1.0 if its coordinate 0 is >= 0,
\* else 0.0.
C10_SlicesStayAligned ==
    Completed("split") =>
        \A s \in 1 .. 3 :
            /\ Length(Slices[s]) = Length(TargetSlices[s])
            /\ \A i \in Indices(Slices[s]) :
                 At(TargetSlices[s], i) = IF At(Slices[s], i)[0] >= 0 THEN One ELSE 0

\* C10 witness: three non-empty slices whose first labels differ, one of a
\* sample whose coordinate 0 is the negative value nearest to zero.
C10_Witness ==
    /\ Completed("split")
    /\ \A s \in 1 .. 3 : Length(Slices[s]) > 0
    /\ \E s, t \in 1 .. 3 :
         /\ At(TargetSlices[s], 0) # At(TargetSlices[t], 0)
         /\ At(Slices[s], 0)[0] = TinyNeg

====
